---- MODULE Spec2Model ----
(***************************************************************************)
(* Model of the Mercury flash programmer (examples/mercpcl.rs): the        *)
(* bit-banged SPI primitives, the flash command engine built on them and   *)
(* the page-by-page programming workflow of main.                          *)
(*                                                                         *)
(* The transport (ftdi::Context) is the environment: every write_data and  *)
(* read_pins either succeeds or fails, and read_pins returns pin levels    *)
(* chosen by the device.  The primitives spi_sel, spi_out and spi_in are   *)
(* operators that run a whole call against the transport log; the flash    *)
(* commands and main are executed statement by statement on a call stack.  *)
(***************************************************************************)
EXTENDS Integers, Sequences, FiniteSets, TLC

VARIABLES
    stack,      \* call stack: one frame per active function, innermost last
    ret,        \* result of the call that returned last
    wire,       \* transport operations of the engine operation in progress
    calls,      \* spi_sel / spi_out / spi_in calls of that engine operation
    cmds,       \* engine operations started since the invocation began
    entry,      \* the invocation in progress (what was called, with what)
    bitmode,    \* direction byte last set with set_bitmode (0: never set)
    device      \* the Device of the library (lib.rs) a client holds

vars == <<stack, ret, wire, calls, cmds, entry, bitmode, device>>

----------------------------------------------------------------------------
(* Bounds of the model.                                                     *)

\* Page size used by the model (stands for the 264-byte page buffer).
PageLen == 2
\* Number of pages the workflow loop visits (stands for 0..8192).
NumPages == 3
\* Iteration budget flash_write and flash_erase give flash_poll
\* (stands for 300000).
PollBudget == 2
\* Largest timeout a direct flash_poll call is given.
MaxTimeout == 3
\* Longest byte string a direct spi_out call is given, and the longest
\* buffer a direct spi_in call is given.
MaxBytes == 2

----------------------------------------------------------------------------
(* Bitwise arithmetic on unsigned integers.                                 *)

Bit(x, k) == (x \div (2 ^ k)) % 2

RECURSIVE Or8(_, _)
\* a | b
Or8(a, b) ==
    IF a = 0 THEN b
    ELSE IF b = 0 THEN a
    ELSE (IF a % 2 = 1 \/ b % 2 = 1 THEN 1 ELSE 0) + 2 * Or8(a \div 2, b \div 2)

RECURSIVE And8(_, _)
\* a & b
And8(a, b) ==
    IF a = 0 \/ b = 0 THEN 0
    ELSE (IF a % 2 = 1 /\ b % 2 = 1 THEN 1 ELSE 0) + 2 * And8(a \div 2, b \div 2)

----------------------------------------------------------------------------
(* Pins and DeviceSelect (bitflags).                                        *)

CSN0 == 1
CSN1 == 2
SCLK == 4
MISO == 8
MOSI == 16
PROG == 32
FT245_DIR_IDLE == Or8(Or8(CSN0, CSN1), Or8(SCLK, MOSI))
FT245_DIR_PROG == Or8(FT245_DIR_IDLE, PROG)

\* CSN0 low selects FLASH, CSN1 low selects FPGA.
FPGA == CSN0
FLASH == CSN1
\* A variant of IDLE that would drive both chip-selects low.
IDLE_BothLow == And8(CSN0, CSN1)
IDLE == Or8(CSN0, CSN0)

\* The named selections a caller can pass, by name.
SelectNames == {"FPGA", "FLASH", "IDLE"}
SelBits(name) ==
    CASE name = "FPGA" -> FPGA
      [] name = "FLASH" -> FLASH
      [] name = "IDLE" -> IDLE

----------------------------------------------------------------------------
(* Results and transport log entries.                                       *)

Ok(v) == [kind |-> "ok", val |-> v]
\* An ftdi error; val is the position in the transport log of the
\* operation that failed, which tells one error from another.
FtdiErr(at) == [kind |-> "ftdi", val |-> at]
Timeout == [kind |-> "timeout", val |-> 0]
NoResult == [kind |-> "none", val |-> 0]

\* write_data(data): the bytes handed to the transport, and whether it failed.
Wr(data, ok) == [op |-> "write", data |-> data, ok |-> ok]
\* read_pins(): the pin byte returned (nothing on failure).
Rd(v, ok) == [op |-> "read_pins", data |-> IF ok THEN <<v>> ELSE <<>>, ok |-> ok]

----------------------------------------------------------------------------
(* spi_sel, spi_out, spi_in.  Each takes the transport log so far and the   *)
(* environment's choice for the call, and returns the log and the result.   *)

\* fail: the write fails.
SpiSel(w, sel, fail) ==
    [wire |-> Append(w, Wr(<<sel>>, ~fail)),
     res  |-> IF fail THEN FtdiErr(Len(w) + 1) ELSE Ok(0)]

\* A variant of SpiWord that takes the bits least significant first.
SpiWord_LsbFirst(b, sel) ==
    [k \in 1..17 |->
        IF k = 17 THEN sel
        ELSE LET i == (k - 1) \div 2
                 curr_bit == IF Bit(b, i) = 1 THEN MOSI ELSE 0
             IN  IF (k - 1) % 2 = 0
                 THEN Or8(curr_bit, sel)
                 ELSE Or8(Or8(curr_bit, SCLK), sel)]

\* The 17-entry SPI word of one byte.  BitReader hands out the bits of b
\* most significant first; entry k (1-based) is spi_word[k-1].
SpiWord(b, sel) ==
    [k \in 1..17 |->
        IF k = 17 THEN sel
        ELSE LET i == (k - 1) \div 2
                 curr_bit == IF Bit(b, 7 - i) = 1 THEN MOSI ELSE 0
             IN  IF (k - 1) % 2 = 0
                 THEN Or8(curr_bit, sel)
                 ELSE Or8(Or8(curr_bit, SCLK), sel)]

\* A variant of SpiOut that goes on writing the words after a failed write.
SpiOut_KeepGoing(w, bytes, sel, failAt) ==
    [wire |-> w \o [i \in 1..Len(bytes) |->
                       Wr(SpiWord(bytes[i], sel), i # failAt)],
     res  |-> IF failAt = 0 THEN Ok(Len(bytes))
              ELSE FtdiErr(Len(w) + failAt)]

\* spi_out: one write_data of the whole word per byte, in order, stopping at
\* the first that fails.  failAt is the index of the byte whose write fails
\* (0: none does); the count returned is the number of bytes written.
SpiOut(w, bytes, sel, failAt) ==
    LET last == IF failAt = 0 THEN Len(bytes) ELSE failAt
    IN  [wire |-> w \o [i \in 1..last |->
                          Wr(SpiWord(bytes[i], sel), i # failAt)],
         res  |-> IF failAt = 0 THEN Ok(Len(bytes))
                  ELSE FtdiErr(Len(w) + failAt)]

\* Number of transport operations of a successful spi_in of n bytes.
SpiInOps(n) == 24 * n + 1

RECURSIVE Assemble_AnyPin(_, _, _)
\* A variant of Assemble that takes any pin at 1 for the data-in level.
Assemble_AnyPin(samples, i, curr_byte) ==
    IF i < 0 THEN curr_byte
    ELSE Assemble_AnyPin(samples, i - 1,
                         IF samples[8 - i] # 0
                         THEN Or8(curr_byte, 2 ^ i)
                         ELSE curr_byte)

RECURSIVE Assemble_LsbFirst(_, _, _)
\* A variant of Assemble that fills the byte from its least significant bit.
Assemble_LsbFirst(samples, i, curr_byte) ==
    IF i < 0 THEN curr_byte
    ELSE Assemble_LsbFirst(samples, i - 1,
                           IF And8(MISO, samples[8 - i]) # 0
                           THEN Or8(curr_byte, 2 ^ (7 - i))
                           ELSE curr_byte)

RECURSIVE Assemble(_, _, _)
\* The inner loop of spi_in, for i in (0..8).rev(), from bit i down:
\* curr_byte after the samples bits<<1>>, bits<<2>>, .. were taken for the
\* bits i, i-1, ..
Assemble(samples, i, curr_byte) ==
    IF i < 0 THEN curr_byte
    ELSE Assemble(samples, i - 1,
                  IF And8(MISO, samples[8 - i]) # 0
                  THEN Or8(curr_byte, 2 ^ i)
                  ELSE curr_byte)

\* A variant of SpiInOp that pulses the clock before it samples.
SpiInOp_ClockFirst(k, total, sel, pins, ok) ==
    IF k = total THEN Wr(<<IDLE>>, ok)
    ELSE IF (k - 1) % 3 = 0 THEN Wr(<<Or8(SCLK, sel)>>, ok)
    ELSE IF (k - 1) % 3 = 1 THEN Wr(<<sel>>, ok)
    ELSE Rd(pins[((k - 1) \div 3) + 1], ok)

\* A variant of SpiInOp whose clock pulses carry the idle pattern in place
\* of the selection.
SpiInOp_Deselected(k, total, sel, pins, ok) ==
    IF k = total THEN Wr(<<IDLE>>, ok)
    ELSE IF (k - 1) % 3 = 0 THEN Rd(pins[((k - 1) \div 3) + 1], ok)
    ELSE IF (k - 1) % 3 = 1 THEN Wr(<<Or8(SCLK, IDLE)>>, ok)
    ELSE Wr(<<IDLE>>, ok)

\* The k-th transport operation of spi_in (k from 1): per bit read_pins,
\* write clk_hi, write clk_lo; after the loops the write of the idle pattern.
SpiInOp(k, total, sel, pins, ok) ==
    LET clk_hi == Or8(SCLK, sel)
        clk_lo == sel
        idle == IDLE
    IN  IF k = total THEN Wr(<<idle>>, ok)
        ELSE IF (k - 1) % 3 = 0 THEN Rd(pins[((k - 1) \div 3) + 1], ok)
        ELSE IF (k - 1) % 3 = 1 THEN Wr(<<clk_hi>>, ok)
        ELSE Wr(<<clk_lo>>, ok)

\* spi_in: pins[s] is what read_pins returns for the s-th sample; failAt is
\* the number, within the call, of the transport operation that fails (0:
\* none does).  A byte of buf is stored once its eight bits are clocked.
SpiIn(w, buf, sel, pins, failAt) ==
    LET total == SpiInOps(Len(buf))
        last == IF failAt = 0 THEN total ELSE failAt
        stored(j) == failAt = 0 \/ failAt > 24 * j
    IN  [wire |-> w \o [k \in 1..last |->
                          SpiInOp(k, total, sel, pins, k # failAt)],
         buf  |-> [j \in 1..Len(buf) |->
                      IF stored(j)
                      THEN Assemble(SubSeq(pins, 8 * j - 7, 8 * j), 7, 0)
                      ELSE buf[j]],
         res  |-> IF failAt = 0 THEN Ok(Len(buf))
                  ELSE FtdiErr(Len(w) + failAt)]

----------------------------------------------------------------------------
(* The environment's inputs.                                                *)

\* Bytes a direct spi_out call is given.
OutBytes == 0..255
\* Bytes the device shifts out during a direct spi_in call.
InBytes == {0, 37, 128, 255}
\* Levels of the pins other than MISO in the samples of a direct spi_in call.
Noise == {0, 247}
\* What the flash answers a status read with: the status byte, and the
\* levels of the other pins meanwhile.
StatusAnswers ==
    {[resp |-> <<0>>, noise |-> 0], [resp |-> <<127>>, noise |-> 247],
     [resp |-> <<128>>, noise |-> 0]}
\* What the flash answers a read-identification with (the last byte below
\* 128, so that the identifier stays within the model checker's integers).
IdAnswers ==
    {[resp |-> <<31, 37, 0, 0>>, noise |-> 0],
     [resp |-> <<1, 2, 4, 127>>, noise |-> 247]}

\* Where an spi_in of n bytes made by a flash command may fail: nowhere, at
\* the first read_pins, clock-high write or clock-low write, at the first
\* read_pins of the second byte, at the last clock-low write, or at the write
\* of the idle pattern.  (A direct spi_in call may fail anywhere.)
SpiInFailPoints(n) ==
    {0, 1, 2, 3, 24 * n, 24 * n + 1} \cup {k \in {25} : n >= 2}

\* What read_pins returns while the device shifts out resp, most significant
\* bit first, one bit per sample, the other pins at the levels of noise.
Samples(resp, noise) ==
    [s \in 1..(8 * Len(resp)) |->
        Or8(IF Bit(resp[((s - 1) \div 8) + 1], 7 - ((s - 1) % 8)) = 1
            THEN MISO ELSE 0,
            And8(noise, 255 - MISO))]

Pins(ans) == Samples(ans.resp, ans.noise)

----------------------------------------------------------------------------
(* Call stack and logs.                                                     *)

Top == stack[Len(stack)]
Running(fn, pc) == stack # <<>> /\ Top.fn = fn /\ Top.pc = pc
Pop == SubSeq(stack, 1, Len(stack) - 1)
Goto(pc) == [stack EXCEPT ![Len(stack)].pc = pc]

Idle == stack = <<>> /\ entry.op = "none"
\* The invocation has returned; of main, the frame is kept as it was left.
Finished ==
    /\ entry.op # "none"
    /\ IF stack = <<>> THEN TRUE ELSE Top.pc = "exit"

\* An invocation: the function called, its DeviceSelect argument (sel: the
\* bits; which: the constant's name, kept for spi_sel), its bytes, its number.
NoEntry == [op |-> "none", which |-> "", sel |-> 0, bytes |-> <<>>, n |-> 0]
Entry(op, sel, bytes, n) ==
    [op |-> op, which |-> "", sel |-> sel, bytes |-> bytes, n |-> n]

\* A record of one spi_sel / spi_out / spi_in call: for spi_out, bytes are
\* the bytes sent; for spi_in, the buffer as the call left it.
Call(fn, sel, bytes, res) ==
    [fn |-> fn, sel |-> sel, bytes |-> bytes, ok |-> res.kind = "ok"]

\* A record of one engine operation: flash_id, flash_write (arg: the page
\* buffer), do_erase_cmd (arg: the command), or a direct flash_poll.
Cmd(op, arg, page) == [op |-> op, arg |-> arg, page |-> page, res |-> "run"]

\* The frame on top runs an engine operation of its own.
EngineTop ==
    \/ Top.fn \in {"flash_id", "flash_write", "do_erase_cmd"}
    \/ Top.fn = "flash_poll" /\ Len(stack) = 1

Closed(kind) ==
    IF EngineTop THEN [cmds EXCEPT ![Len(cmds)].res = kind] ELSE cmds

\* return res from the function on top
Return(res) ==
    /\ stack' = Pop
    /\ ret' = res
    /\ cmds' = Closed(res.kind)

\* A variant of Try that reports the error of the primitive as a timeout.
Try_ErrAsTimeout(r, call, next) ==
    /\ wire' = r.wire
    /\ calls' = Append(calls, call)
    /\ IF r.res.kind = "ok"
       THEN stack' = Goto(next) /\ ret' = ret /\ cmds' = cmds
       ELSE Return(Timeout)

\* A statement `prim(..)?;` of the function on top: r is what the primitive
\* did; go on at next, or return its error.
Try(r, call, next) ==
    /\ wire' = r.wire
    /\ calls' = Append(calls, call)
    /\ IF r.res.kind = "ok"
       THEN stack' = Goto(next) /\ ret' = ret /\ cmds' = cmds
       ELSE Return(r.res)

----------------------------------------------------------------------------
(* flash_poll                                                               *)

FlashPollFrame(timeout) ==
    [fn |-> "flash_poll", pc |-> "loop", timeout |-> timeout, a |-> 0,
     status_code |-> 0]

\* A variant of Ready that takes any bit of the status byte for the ready bit.
Ready_AnyBit(status_code) == status_code # 0

\* (status_code & 0x80) != 0
Ready(status_code) == And8(status_code, 128) # 0

\* the for loop is exhausted: Err(MercuryError::Timeout)
FlashPollTimeout ==
    /\ Running("flash_poll", "loop")
    /\ Top.a >= Top.timeout
    /\ Return(Timeout)
    /\ UNCHANGED <<wire, calls, entry, bitmode>>
    /\ UNCHANGED device

\* self.spi_out(from_ref(&status_read), FLASH)?
FlashPollOut ==
    /\ Running("flash_poll", "loop")
    /\ Top.a < Top.timeout
    /\ \E failAt \in 0..1 :
         \E r \in {SpiOut(wire, <<215>>, FLASH, failAt)} :
             Try(r, Call("spi_out", FLASH, <<215>>, r.res), "spi_in")
    /\ UNCHANGED <<entry, bitmode>>
    /\ UNCHANGED device

\* self.spi_in(from_mut(&mut status_code), FLASH)?
FlashPollIn ==
    /\ Running("flash_poll", "spi_in")
    /\ \E ans \in StatusAnswers, failAt \in SpiInFailPoints(1) :
         \E r \in {SpiIn(wire, <<Top.status_code>>, FLASH, Pins(ans), failAt)} :
             /\ wire' = r.wire
             /\ calls' = Append(calls, Call("spi_in", FLASH, r.buf, r.res))
             /\ IF r.res.kind = "ok"
                THEN /\ stack' = [stack EXCEPT
                                    ![Len(stack)].pc = "spi_sel",
                                    ![Len(stack)].status_code = r.buf[1]]
                     /\ UNCHANGED <<ret, cmds>>
                ELSE Return(r.res)
    /\ UNCHANGED <<entry, bitmode>>
    /\ UNCHANGED device

\* A variant of FlashPollSel that goes on polling when the flash is ready.
FlashPollSel_NoEarlyReturn ==
    /\ Running("flash_poll", "spi_sel")
    /\ \E fail \in BOOLEAN :
         \E r \in {SpiSel(wire, IDLE, fail)} :
             /\ wire' = r.wire
             /\ calls' = Append(calls, Call("spi_sel", IDLE, <<>>, r.res))
             /\ IF r.res.kind # "ok"
                THEN Return(r.res)
                ELSE /\ stack' = [stack EXCEPT
                                    ![Len(stack)].pc = "loop",
                                    ![Len(stack)].a = Top.a + 1]
                     /\ UNCHANGED <<ret, cmds>>
    /\ UNCHANGED <<entry, bitmode>>
    /\ UNCHANGED device

\* self.spi_sel(IDLE)?; if (status_code & 0x80) != 0 { return Ok(()) }
FlashPollSel ==
    /\ Running("flash_poll", "spi_sel")
    /\ \E fail \in BOOLEAN :
         \E r \in {SpiSel(wire, IDLE, fail)} :
             /\ wire' = r.wire
             /\ calls' = Append(calls, Call("spi_sel", IDLE, <<>>, r.res))
             /\ IF r.res.kind # "ok"
                THEN Return(r.res)
                ELSE IF Ready(Top.status_code)
                THEN Return(Ok(0))
                ELSE /\ stack' = [stack EXCEPT
                                    ![Len(stack)].pc = "loop",
                                    ![Len(stack)].a = Top.a + 1]
                     /\ UNCHANGED <<ret, cmds>>
    /\ UNCHANGED <<entry, bitmode>>
    /\ UNCHANGED device

----------------------------------------------------------------------------
(* flash_id                                                                 *)

FlashIdFrame == [fn |-> "flash_id", pc |-> "spi_out", id_arr |-> <<0, 0, 0, 0>>]

\* A variant of ReadU32LE that takes the first byte for the most significant.
ReadU32BE(b) == b[4] + 256 * b[3] + 65536 * b[2] + 16777216 * b[1]

\* LittleEndian::read_u32(&id_arr)
ReadU32LE(b) == b[1] + 256 * b[2] + 65536 * b[3] + 16777216 * b[4]

\* The Err(e) arm of flash_id's matches: self.spi_sel(IDLE)?; return Err(e).
\* fail: the write of the recovery spi_sel fails.
Recover(w, e, fail) ==
    LET r == SpiSel(w, IDLE, fail)
    IN  [wire |-> r.wire,
         call |-> Call("spi_sel", IDLE, <<>>, r.res),
         res  |-> IF r.res.kind = "ok" THEN e ELSE r.res]

\* match self.spi_out(from_ref(&id_cmd), FLASH) { .. }
FlashIdOut ==
    /\ Running("flash_id", "spi_out")
    /\ \E failAt \in 0..1, recFail \in BOOLEAN :
         \E r \in {SpiOut(wire, <<159>>, FLASH, failAt)} :
         LET c == Call("spi_out", FLASH, <<159>>, r.res)
             rec == Recover(r.wire, r.res, recFail)
         IN  IF r.res.kind = "ok"
             THEN /\ wire' = r.wire
                  /\ calls' = Append(calls, c)
                  /\ stack' = Goto("spi_in")
                  /\ UNCHANGED <<ret, cmds>>
             ELSE /\ wire' = rec.wire
                  /\ calls' = calls \o <<c, rec.call>>
                  /\ Return(rec.res)
    /\ UNCHANGED <<entry, bitmode>>
    /\ UNCHANGED device

\* match self.spi_in(&mut id_arr, FLASH) { .. }
FlashIdIn ==
    /\ Running("flash_id", "spi_in")
    /\ \E ans \in IdAnswers, failAt \in SpiInFailPoints(4), recFail \in BOOLEAN :
         \E r \in {SpiIn(wire, Top.id_arr, FLASH, Pins(ans), failAt)} :
         LET c == Call("spi_in", FLASH, r.buf, r.res)
             rec == Recover(r.wire, r.res, recFail)
         IN  IF r.res.kind = "ok"
             THEN /\ wire' = r.wire
                  /\ calls' = Append(calls, c)
                  /\ stack' = [stack EXCEPT ![Len(stack)].pc = "spi_sel",
                                            ![Len(stack)].id_arr = r.buf]
                  /\ UNCHANGED <<ret, cmds>>
             ELSE /\ wire' = rec.wire
                  /\ calls' = calls \o <<c, rec.call>>
                  /\ Return(rec.res)
    /\ UNCHANGED <<entry, bitmode>>
    /\ UNCHANGED device

\* self.spi_sel(IDLE)?; Ok(LittleEndian::read_u32(&id_arr))
FlashIdSel ==
    /\ Running("flash_id", "spi_sel")
    /\ \E fail \in BOOLEAN :
         \E r \in {SpiSel(wire, IDLE, fail)} :
             /\ wire' = r.wire
             /\ calls' = Append(calls, Call("spi_sel", IDLE, <<>>, r.res))
             /\ Return(IF r.res.kind = "ok" THEN Ok(ReadU32LE(Top.id_arr))
                       ELSE r.res)
    /\ UNCHANGED <<entry, bitmode>>
    /\ UNCHANGED device

----------------------------------------------------------------------------
(* flash_write                                                              *)

FlashWriteFrame(buf, page_addr) ==
    [fn |-> "flash_write", pc |-> "load_cmd", buf |-> buf,
     page_addr |-> page_addr]

write_flash_buffer_cmd == <<132, 0, 0, 0>>

\* A variant of BufToFlashCmd whose high address field is not masked.
BufToFlashCmd_NoMask(page_addr) ==
    <<136, (page_addr \div 128) % 256, (2 * (page_addr % 128)) % 256, 0>>

\* buf_to_flash_cmd with its address fields filled in (u32 arithmetic, then
\* `as u8`).
BufToFlashCmd(page_addr) ==
    LET paddr_hi == And8(And8(page_addr, 1023) \div 128, 7) % 256
        paddr_lo == And8(And8(page_addr, 1023) * 2, 254) % 256
    IN  <<136, paddr_hi, paddr_lo, 0>>

\* A variant of FlashWriteNext without the spi_sel(IDLE) after the buffer load.
FlashWriteNext_NoDeselect(pc) ==
    CASE pc = "load_cmd" -> "load_data"
      [] pc = "load_data" -> "commit"
      [] pc = "sel_load" -> "commit"
      [] pc = "commit" -> "sel_commit"
      [] pc = "sel_commit" -> "poll"

\* The statement that follows each statement of flash_write.
FlashWriteNext(pc) ==
    CASE pc = "load_cmd" -> "load_data"
      [] pc = "load_data" -> "sel_load"
      [] pc = "sel_load" -> "commit"
      [] pc = "commit" -> "sel_commit"
      [] pc = "sel_commit" -> "poll"

\* self.spi_out(&write_flash_buffer_cmd, FLASH)?
FlashWriteLoadCmd ==
    /\ Running("flash_write", "load_cmd")
    /\ \E failAt \in 0..Len(write_flash_buffer_cmd) :
         \E r \in {SpiOut(wire, write_flash_buffer_cmd, FLASH, failAt)} :
             Try(r, Call("spi_out", FLASH, write_flash_buffer_cmd, r.res),
                 FlashWriteNext("load_cmd"))
    /\ UNCHANGED <<entry, bitmode>>
    /\ UNCHANGED device

\* self.spi_out(buf, FLASH)?
FlashWriteLoadData ==
    /\ Running("flash_write", "load_data")
    /\ \E failAt \in 0..Len(Top.buf) :
         \E r \in {SpiOut(wire, Top.buf, FLASH, failAt)} :
             Try(r, Call("spi_out", FLASH, Top.buf, r.res),
                 FlashWriteNext("load_data"))
    /\ UNCHANGED <<entry, bitmode>>
    /\ UNCHANGED device

\* self.spi_sel(IDLE)?   (after the buffer load, and after the commit)
FlashWriteSel ==
    /\ stack # <<>> /\ Top.fn = "flash_write"
    /\ Top.pc \in {"sel_load", "sel_commit"}
    /\ \E fail \in BOOLEAN :
         \E r \in {SpiSel(wire, IDLE, fail)} :
             Try(r, Call("spi_sel", IDLE, <<>>, r.res), FlashWriteNext(Top.pc))
    /\ UNCHANGED <<entry, bitmode>>
    /\ UNCHANGED device

\* self.spi_out(&buf_to_flash_cmd, FLASH)?
FlashWriteCommit ==
    /\ Running("flash_write", "commit")
    /\ \E failAt \in 0..4 :
         \E cmd \in {BufToFlashCmd(Top.page_addr)} :
         \E r \in {SpiOut(wire, cmd, FLASH, failAt)} :
             Try(r, Call("spi_out", FLASH, cmd, r.res),
                 FlashWriteNext("commit"))
    /\ UNCHANGED <<entry, bitmode>>
    /\ UNCHANGED device

\* self.flash_poll(300000)...
FlashWritePoll ==
    /\ Running("flash_write", "poll")
    /\ stack' = Append(Goto("poll_ret"), FlashPollFrame(PollBudget))
    /\ UNCHANGED <<ret, wire, calls, cmds, entry, bitmode>>
    /\ UNCHANGED device

\* ...?; println!(..); Ok(())
FlashWriteDone ==
    /\ Running("flash_write", "poll_ret")
    /\ Return(IF ret.kind = "ok" THEN Ok(0) ELSE ret)
    /\ UNCHANGED <<wire, calls, entry, bitmode>>
    /\ UNCHANGED device

----------------------------------------------------------------------------
(* do_erase_cmd and flash_erase                                             *)

DoEraseCmdFrame(cmd, timeout) ==
    [fn |-> "do_erase_cmd", pc |-> "spi_out", cmd |-> cmd, timeout |-> timeout]

\* self.spi_out(cmd, FLASH)?
DoEraseOut ==
    /\ Running("do_erase_cmd", "spi_out")
    /\ \E failAt \in 0..Len(Top.cmd) :
         \E r \in {SpiOut(wire, Top.cmd, FLASH, failAt)} :
             Try(r, Call("spi_out", FLASH, Top.cmd, r.res), "spi_sel")
    /\ UNCHANGED <<entry, bitmode>>
    /\ UNCHANGED device

\* self.spi_sel(IDLE)?
DoEraseSel ==
    /\ Running("do_erase_cmd", "spi_sel")
    /\ \E fail \in BOOLEAN :
         \E r \in {SpiSel(wire, IDLE, fail)} :
             Try(r, Call("spi_sel", IDLE, <<>>, r.res), "poll")
    /\ UNCHANGED <<entry, bitmode>>
    /\ UNCHANGED device

\* self.flash_poll(timeout)...
DoErasePoll ==
    /\ Running("do_erase_cmd", "poll")
    /\ stack' = Append(Goto("poll_ret"), FlashPollFrame(Top.timeout))
    /\ UNCHANGED <<ret, wire, calls, cmds, entry, bitmode>>
    /\ UNCHANGED device

\* ...?; Ok(())
DoEraseDone ==
    /\ Running("do_erase_cmd", "poll_ret")
    /\ Return(IF ret.kind = "ok" THEN Ok(0) ELSE ret)
    /\ UNCHANGED <<wire, calls, entry, bitmode>>
    /\ UNCHANGED device

\* Number of iterations of the loop over the other sectors.
OtherSectors == 16

\* A variant of EraseCmd that does not shift the sector index.
EraseCmd_NoShift(k) ==
    IF k = 0 THEN <<124, 0, 0, 0>>
    ELSE IF k = 1 THEN <<124, 0, 16, 0>>
    ELSE <<124, (k - 2) % 256, 0, 0>>

\* The k-th erase command flash_erase issues (k from 0): sector 0a, sector
\* 0b, then erase_sector_other_cmd with [1] = i << 1 (u8) for i = k - 2.
EraseCmd(k) ==
    IF k = 0 THEN <<124, 0, 0, 0>>
    ELSE IF k = 1 THEN <<124, 0, 16, 0>>
    ELSE <<124, ((k - 2) * 2) % 256, 0, 0>>

FlashEraseFrame == [fn |-> "flash_erase", pc |-> "call", k |-> 0]

\* self.do_erase_cmd(&cmd, 300000)...
FlashEraseCall ==
    /\ Running("flash_erase", "call")
    /\ Top.k < 2 + OtherSectors
    /\ stack' = Append(Goto("ret"), DoEraseCmdFrame(EraseCmd(Top.k), PollBudget))
    /\ cmds' = Append(cmds, Cmd("do_erase_cmd", EraseCmd(Top.k), 0))
    /\ wire' = <<>>
    /\ calls' = <<>>
    /\ UNCHANGED <<ret, entry, bitmode>>
    /\ UNCHANGED device

\* ...?
FlashEraseRet ==
    /\ Running("flash_erase", "ret")
    /\ IF ret.kind = "ok"
       THEN /\ stack' = [stack EXCEPT ![Len(stack)].pc = "call",
                                      ![Len(stack)].k = Top.k + 1]
            /\ UNCHANGED <<ret, cmds>>
       ELSE Return(ret)
    /\ UNCHANGED <<wire, calls, entry, bitmode>>
    /\ UNCHANGED device

\* Ok(())
FlashEraseDone ==
    /\ Running("flash_erase", "call")
    /\ Top.k = 2 + OtherSectors
    /\ Return(Ok(0))
    /\ UNCHANGED <<wire, calls, entry, bitmode>>
    /\ UNCHANGED device

----------------------------------------------------------------------------
(* main: the programming workflow                                           *)

\* The p-th byte of the bitstream file (p from 1).
FileByte(p) == ((p - 1) % 255) + 1

Min(a, b) == IF a < b THEN a ELSE b

\* main's locals, and of the file the position fpos and whether its end was
\* reached (a read returned less than the buffer takes).
MainFrame ==
    [fn |-> "main", pc |-> "open", fpos |-> 0, eof |-> FALSE,
     page_buf |-> [j \in 1..PageLen |-> 0], page_num |-> 0,
     last_page_written |-> 0]

\* What bfile.read(&mut page_buf) may return: as many bytes as the buffer
\* takes or as are left, and nothing once the end was reached.
ReadLens(m) == IF m.eof THEN {0} ELSE 0..PageLen

\* main after bfile.read(&mut page_buf) returned Ok(n).
FileRead(m, n) ==
    [m EXCEPT !.page_buf = [j \in 1..PageLen |->
                               IF j <= n THEN FileByte(m.fpos + j)
                               ELSE m.page_buf[j]],
              !.fpos = m.fpos + n,
              !.eof = m.eof \/ n < PageLen]

\* main is left: by a panic of unwrap(), by one of its returns, or at its end.
\* m: main's frame at that point.
ExitFrom(m, kind) ==
    /\ stack' = <<[m EXCEPT !.pc = "exit"]>>
    /\ ret' = [kind |-> kind, val |-> 0]

Exit(kind) == ExitFrom(Top, kind)

\* the direction byte program_mode(enable) sets
ProgramMode(enable) == IF enable THEN FT245_DIR_PROG ELSE FT245_DIR_IDLE

\* A variant of ProgramModeStmts that leaves the program mode on after the
\* erase.
ProgramModeStmts_StayProg ==
    [pm296 |-> [enable |-> TRUE, next |-> "id"],
     pm298 |-> [enable |-> FALSE, next |-> "pm300"],
     pm300 |-> [enable |-> TRUE, next |-> "pm303"],
     pm303 |-> [enable |-> TRUE, next |-> "erase"],
     pm305 |-> [enable |-> TRUE, next |-> "loop"]]

\* The program_mode statements of main: the argument, and the statement next.
ProgramModeStmts ==
    [pm296 |-> [enable |-> TRUE, next |-> "id"],
     pm298 |-> [enable |-> FALSE, next |-> "pm300"],
     pm300 |-> [enable |-> TRUE, next |-> "pm303"],
     pm303 |-> [enable |-> TRUE, next |-> "erase"],
     pm305 |-> [enable |-> FALSE, next |-> "loop"]]

\* let mut merc = Mercury::new(); merc.open().unwrap();
MainOpen ==
    /\ Running("main", "open")
    /\ \E ok \in BOOLEAN :
         IF ok THEN stack' = Goto("pm296") /\ ret' = ret ELSE Exit("panic")
    /\ UNCHANGED <<wire, calls, cmds, entry, bitmode>>
    /\ UNCHANGED device

\* merc.program_mode(enable).unwrap();
MainProgramMode ==
    /\ stack # <<>> /\ Top.fn = "main"
    /\ Top.pc \in DOMAIN ProgramModeStmts
    /\ \E ok \in BOOLEAN :
         IF ok
         THEN /\ bitmode' = ProgramMode(ProgramModeStmts[Top.pc].enable)
              /\ stack' = Goto(ProgramModeStmts[Top.pc].next)
              /\ ret' = ret
         ELSE Exit("panic") /\ bitmode' = bitmode
    /\ UNCHANGED <<wire, calls, cmds, entry>>
    /\ UNCHANGED device

\* merc.flash_id()...
MainFlashId ==
    /\ Running("main", "id")
    /\ stack' = Append(Goto("id_ret"), FlashIdFrame)
    /\ cmds' = Append(cmds, Cmd("flash_id", <<>>, 0))
    /\ wire' = <<>>
    /\ calls' = <<>>
    /\ UNCHANGED <<ret, entry, bitmode>>
    /\ UNCHANGED device

\* ....unwrap(), println!
MainFlashIdRet ==
    /\ Running("main", "id_ret")
    /\ IF ret.kind = "ok" THEN stack' = Goto("pm298") /\ ret' = ret
       ELSE Exit("panic")
    /\ UNCHANGED <<wire, calls, cmds, entry, bitmode>>
    /\ UNCHANGED device

\* merc.flash_erase()...
MainErase ==
    /\ Running("main", "erase")
    /\ stack' = Append(Goto("erase_ret"), FlashEraseFrame)
    /\ UNCHANGED <<ret, wire, calls, cmds, entry, bitmode>>
    /\ UNCHANGED device

\* A variant of MainEraseRet that goes on whatever flash_erase returned.
MainEraseRet_Ignore ==
    /\ Running("main", "erase_ret")
    /\ stack' = Goto("pm305") /\ ret' = ret
    /\ UNCHANGED <<wire, calls, cmds, entry, bitmode>>
    /\ UNCHANGED device

\* ....unwrap();
MainEraseRet ==
    /\ Running("main", "erase_ret")
    /\ IF ret.kind = "ok" THEN stack' = Goto("pm305") /\ ret' = ret
       ELSE Exit("panic")
    /\ UNCHANGED <<wire, calls, cmds, entry, bitmode>>
    /\ UNCHANGED device

\* The body of the page loop up to the call of flash_write:
\* match bfile.read(&mut page_buf) { Ok(n) => if n < page_buf.len() { break }
\* else { merc.flash_write(&page_buf, page_num as u32)...
MainLoopRead ==
    /\ Running("main", "loop")
    /\ \E ioerr \in BOOLEAN, n \in ReadLens(Top) :
         \E m \in {FileRead(Top, n)} :
             IF ioerr
             THEN Exit("io_error") /\ UNCHANGED <<wire, calls, cmds>>
             ELSE IF n < PageLen
             THEN /\ stack' = <<[m EXCEPT !.pc = "final_read"]>>
                  /\ UNCHANGED <<ret, wire, calls, cmds>>
             ELSE /\ stack' = <<[m EXCEPT !.pc = "write_ret"],
                                FlashWriteFrame(m.page_buf, m.page_num)>>
                  /\ cmds' = Append(cmds, Cmd("flash_write", m.page_buf, m.page_num))
                  /\ wire' = <<>>
                  /\ calls' = <<>>
                  /\ ret' = ret
    /\ UNCHANGED <<entry, bitmode>>
    /\ UNCHANGED device

\* A variant of MainLoopWriteRet that does not record the page written.
MainLoopWriteRet_NoRecord ==
    /\ Running("main", "write_ret")
    /\ IF ret.kind = "ok"
       THEN /\ stack' = <<[Top EXCEPT
                             !.page_num = Top.page_num + 1,
                             !.pc = IF Top.page_num + 1 < NumPages
                                    THEN "loop" ELSE "final_read"]>>
            /\ ret' = ret
       ELSE Exit("panic")
    /\ UNCHANGED <<wire, calls, cmds, entry, bitmode>>
    /\ UNCHANGED device

\* ....unwrap(); last_page_written = page_num; and the loop's next iteration
MainLoopWriteRet ==
    /\ Running("main", "write_ret")
    /\ IF ret.kind = "ok"
       THEN /\ stack' = <<[Top EXCEPT
                             !.last_page_written = Top.page_num,
                             !.page_num = Top.page_num + 1,
                             !.pc = IF Top.page_num + 1 < NumPages
                                    THEN "loop" ELSE "final_read"]>>
            /\ ret' = ret
       ELSE Exit("panic")
    /\ UNCHANGED <<wire, calls, cmds, entry, bitmode>>
    /\ UNCHANGED device

\* The read after the loop: match bfile.read(&mut page_buf) { Ok(n) =>
\* if n == 0 { merc.flash_write(&page_buf, (last_page_written + 1) as u32)...
\* } else { println!("..file is too large to write."); return; }
MainFinalRead ==
    /\ Running("main", "final_read")
    /\ \E ioerr \in BOOLEAN, n \in ReadLens(Top) :
         \E m \in {FileRead(Top, n)} :
             IF ioerr
             THEN Exit("io_error") /\ UNCHANGED <<wire, calls, cmds>>
             ELSE IF n = 0
             THEN /\ stack' = <<[m EXCEPT !.pc = "final_ret"],
                                FlashWriteFrame(m.page_buf,
                                                (m.last_page_written + 1) % 65536)>>
                  /\ cmds' = Append(cmds, Cmd("flash_write", m.page_buf,
                                              (m.last_page_written + 1) % 65536))
                  /\ wire' = <<>>
                  /\ calls' = <<>>
                  /\ ret' = ret
             ELSE ExitFrom(m, "too_large") /\ UNCHANGED <<wire, calls, cmds>>
    /\ UNCHANGED <<entry, bitmode>>
    /\ UNCHANGED device

\* ....unwrap(); and the end of main
MainFinalRet ==
    /\ Running("main", "final_ret")
    /\ Exit(IF ret.kind = "ok" THEN "done" ELSE "panic")
    /\ UNCHANGED <<wire, calls, cmds, entry, bitmode>>
    /\ UNCHANGED device

----------------------------------------------------------------------------
(* Invocations: what a caller of Mercury, or the operating system, starts.  *)

\* Short byte strings a direct spi_out call is given besides single bytes.
ShortBytes == {0, 128, 165}
OutSeqs ==
    {<<b>> : b \in OutBytes}
        \cup UNION {[1..n -> ShortBytes] : n \in 0..MaxBytes}
\* Page buffers and page addresses a direct flash_write call is given.
PageBufs == {[j \in 1..PageLen |-> 165], [j \in 1..PageLen |-> j]}
PageAddrs == {0, 1, 127, 130, 1023, 1024, 8191, 1000000}

Begin(e, frames) ==
    /\ Idle
    /\ entry' = e
    /\ stack' = frames
    /\ ret' = NoResult
    /\ wire' = <<>>
    /\ calls' = <<>>
    /\ bitmode' = bitmode

\* merc.spi_sel(sel)
CallSpiSel ==
    /\ Idle
    /\ \E name \in SelectNames, fail \in BOOLEAN :
      \E r \in {SpiSel(<<>>, SelBits(name), fail)} :
            /\ entry' = [Entry("spi_sel", SelBits(name), <<>>, 0)
                            EXCEPT !.which = name]
            /\ stack' = <<>>
            /\ ret' = r.res
            /\ wire' = r.wire
            /\ calls' = <<Call("spi_sel", SelBits(name), <<>>, r.res)>>
            /\ cmds' = <<>>
            /\ UNCHANGED bitmode
    /\ UNCHANGED device

\* merc.spi_out(bytes, sel)
CallSpiOut ==
    /\ Idle
    /\ \E name \in SelectNames, bytes \in OutSeqs :
      \E failAt \in 0..Len(bytes) :
      \E r \in {SpiOut(<<>>, bytes, SelBits(name), failAt)} :
            /\ entry' = Entry("spi_out", SelBits(name), bytes, 0)
            /\ stack' = <<>>
            /\ ret' = r.res
            /\ wire' = r.wire
            /\ calls' = <<Call("spi_out", SelBits(name), bytes, r.res)>>
            /\ cmds' = <<>>
            /\ UNCHANGED bitmode
    /\ UNCHANGED device

\* merc.spi_in(&mut buf, sel) with a buffer of n bytes
CallSpiIn ==
    /\ Idle
    /\ \E name \in SelectNames, n \in 0..MaxBytes, noise \in Noise :
      \E resp \in [1..n -> InBytes], failAt \in 0..SpiInOps(n) :
      \E pins \in {Samples(resp, noise)} :
      \E r \in {SpiIn(<<>>, [j \in 1..n |-> 170], SelBits(name), pins, failAt)} :
            /\ entry' = Entry("spi_in", SelBits(name), <<>>, n)
            /\ stack' = <<>>
            /\ ret' = r.res
            /\ wire' = r.wire
            /\ calls' = <<Call("spi_in", SelBits(name), r.buf, r.res)>>
            /\ cmds' = <<>>
            /\ UNCHANGED bitmode
    /\ UNCHANGED device

\* merc.spi_out(&[b], FLASH) and then merc.spi_in(&mut buf, FLASH) of one
\* byte with the data-out pin looped back to the data-in pin: the level
\* read_pins gives on MISO at the j-th sample is the MOSI level of the j-th
\* bit-pair of the word written; the other pins are at the levels of noise.
CallLoopback ==
    /\ Idle
    /\ \E b \in OutBytes, noise \in Noise :
      \E o \in {SpiOut(<<>>, <<b>>, FLASH, 0)} :
      \E pins \in {[j \in 1..8 |->
                      Or8(IF And8(o.wire[1].data[2 * j - 1], MOSI) # 0
                          THEN MISO ELSE 0,
                          And8(noise, 255 - MISO))]} :
      \E r \in {SpiIn(o.wire, <<0>>, FLASH, pins, 0)} :
            /\ entry' = Entry("loopback", FLASH, <<b>>, 1)
            /\ stack' = <<>>
            /\ ret' = r.res
            /\ wire' = r.wire
            /\ calls' = <<Call("spi_out", FLASH, <<b>>, o.res),
                          Call("spi_in", FLASH, r.buf, r.res)>>
            /\ cmds' = <<>>
            /\ UNCHANGED bitmode
    /\ UNCHANGED device

\* merc.flash_poll(timeout)
CallFlashPoll ==
    \E timeout \in 0..MaxTimeout :
        /\ Begin(Entry("flash_poll", FLASH, <<>>, timeout),
                 <<FlashPollFrame(timeout)>>)
        /\ cmds' = <<Cmd("flash_poll", <<>>, 0)>>
        /\ UNCHANGED device

\* merc.flash_id()
CallFlashId ==
    /\ Begin(Entry("flash_id", FLASH, <<>>, 0), <<FlashIdFrame>>)
    /\ cmds' = <<Cmd("flash_id", <<>>, 0)>>
    /\ UNCHANGED device

\* merc.flash_write(&buf, page_addr)
CallFlashWrite ==
    \E buf \in PageBufs, page_addr \in PageAddrs :
        /\ Begin(Entry("flash_write", FLASH, buf, page_addr),
                 <<FlashWriteFrame(buf, page_addr)>>)
        /\ cmds' = <<Cmd("flash_write", buf, page_addr)>>
        /\ UNCHANGED device

\* merc.flash_erase()
CallFlashErase ==
    /\ Begin(Entry("flash_erase", FLASH, <<>>, 0), <<FlashEraseFrame>>)
    /\ cmds' = <<>>
    /\ UNCHANGED device

\* the program is run on a bitstream file
CallMain ==
    /\ Begin(Entry("main", IDLE, <<>>, 0), <<MainFrame>>)
    /\ cmds' = <<>>
    /\ UNCHANGED device

\* the invocation is over and its Mercury dropped; a new one is constructed
Reset ==
    /\ Finished
    /\ entry' = NoEntry
    /\ ret' = NoResult
    /\ wire' = <<>>
    /\ calls' = <<>>
    /\ cmds' = <<>>
    /\ bitmode' = 0
    /\ stack' = <<>>
    /\ UNCHANGED device

----------------------------------------------------------------------------
(* Device (lib.rs): the safe wrapper a client of the library holds.  The    *)
(* calls of libftdi a method makes are logged in wire, its result is in     *)
(* ret, and entry tells which method ran and, in which, whether eeprom_read *)
(* was set when it was called.                                              *)

\* No Device constructed yet, or the last one closed (its fields are kept
\* as they were left; a constructor writes them anew).
NoDevice == [open |-> FALSE, eeprom_read |-> FALSE]

\* A call of a libftdi function, and whether it succeeded (rc >= 0).
Lib(f, ok) == [op |-> f, data |-> <<>>, ok |-> ok]

\* Err(Error::MallocFailure) of Context::new
MallocFailure == [kind |-> "malloc", val |-> 0]

\* The constructors with a body of their own; from_vid_pid and
\* from_description_serial delegate to from_description_serial_index.
Constructors ==
    [from_description_serial_index |-> "ftdi_usb_open_desc_index",
     from_bus_addr |-> "ftdi_usb_open_bus_addr",
     from_description_string |-> "ftdi_usb_open_string"]

\* A constructor: Context::new()?, context.set_interface(interface)?, the
\* open call, check_ftdi_error(rc)?, Ok(Device { context, eeprom_read:
\* false }).  failAt: which of the three calls fails (0: none).
OpenDevice(ctor, failAt) ==
    LET log == <<Lib("ftdi_new", failAt # 1),
                 Lib("ftdi_set_interface", failAt # 2),
                 Lib(Constructors[ctor], failAt # 3)>>
    IN  [wire |-> SubSeq(log, 1, IF failAt = 0 THEN 3 ELSE failAt),
         res  |-> IF failAt = 0 THEN Ok(0)
                  ELSE IF failAt = 1 THEN MallocFailure
                  ELSE FtdiErr(failAt),
         dev  |-> IF failAt = 0 THEN [open |-> TRUE, eeprom_read |-> FALSE]
                  ELSE device]

\* A variant of LoadEepromData that sets eeprom_read once the read is done.
LoadEepromData_SetEarly(dev, w, failAt) ==
    LET log == <<Lib("ftdi_read_eeprom", failAt # 1),
                 Lib("ftdi_eeprom_decode", failAt # 2)>>
    IN  [wire |-> w \o SubSeq(log, 1, IF failAt = 0 THEN 2 ELSE failAt),
         res  |-> IF failAt = 0 THEN Ok(0) ELSE FtdiErr(Len(w) + failAt),
         dev  |-> IF failAt # 1 THEN [dev EXCEPT !.eeprom_read = TRUE]
                  ELSE dev]

\* load_eeprom_data: ftdi_read_eeprom, check_ftdi_error(rc)?,
\* ftdi_eeprom_decode, check_ftdi_error(rc)?, self.eeprom_read = true.
\* failAt: which of the two calls fails (0: none).
LoadEepromData(dev, w, failAt) ==
    LET log == <<Lib("ftdi_read_eeprom", failAt # 1),
                 Lib("ftdi_eeprom_decode", failAt # 2)>>
    IN  [wire |-> w \o SubSeq(log, 1, IF failAt = 0 THEN 2 ELSE failAt),
         res  |-> IF failAt = 0 THEN Ok(0) ELSE FtdiErr(Len(w) + failAt),
         dev  |-> IF failAt = 0 THEN [dev EXCEPT !.eeprom_read = TRUE]
                  ELSE dev]

\* What the EEPROM may hold: the DeviceInfo values eeprom_get_strings may
\* return; Ok(i) stands for Ok of the i-th.
DeviceInfos ==
    [manufacturer : {"FTDI", "Micro-Nova", ""},
     description : {"FT245R USB FIFO", "Mercury"},
     serial : {"A1", "A2", "FTX"}]
DeviceInfoSeq ==
    CHOOSE q \in [1..Cardinality(DeviceInfos) -> DeviceInfos] :
        \A i, j \in DOMAIN q : i # j => q[i] # q[j]

\* A method of Device has run.
DevCall(op, r, cl) ==
    /\ entry' = [Entry(op, 0, <<>>, 0) EXCEPT
                    !.which = IF device.eeprom_read THEN "loaded"
                              ELSE "unloaded"]
    /\ wire' = r.wire
    /\ ret' = r.res
    /\ calls' = cl
    /\ device' = r.dev
    /\ UNCHANGED <<stack, cmds, bitmode>>

\* Device::from_description_serial_index(..), Device::from_bus_addr(..),
\* Device::from_description_string(..)
DevOpen ==
    /\ ~device.open
    /\ \E ctor \in DOMAIN Constructors, failAt \in 0..3 :
          DevCall(ctor, OpenDevice(ctor, failAt), <<>>)

\* dev.load_eeprom_data()
DevLoadEepromData ==
    /\ device.open
    /\ \E failAt \in 0..2 :
          DevCall("load_eeprom_data", LoadEepromData(device, <<>>, failAt), <<>>)

\* dev.eeprom_get_strings(): if !self.eeprom_read { self.load_eeprom_data()?; }
\* then ftdi_read_eeprom, check_ftdi_error(rc)?, ftdi_eeprom_get_strings,
\* check_ftdi_error(rc)?, Ok(DeviceInfo { .. }).  failAt: which of these
\* two calls fails (0: none); info: the strings the EEPROM holds.
DevEepromGetStrings ==
    /\ device.open
    /\ \E loadFail \in (IF device.eeprom_read THEN {0} ELSE 0..2),
          failAt \in 0..2, info \in 1..Cardinality(DeviceInfos) :
        \E l \in {IF device.eeprom_read
                  THEN [wire |-> <<>>, res |-> Ok(0), dev |-> device]
                  ELSE LoadEepromData(device, <<>>, loadFail)} :
          LET cl == IF device.eeprom_read THEN <<>>
                    ELSE <<Call("load_eeprom_data", 0, <<>>, l.res)>>
              log == <<Lib("ftdi_read_eeprom", failAt # 1),
                       Lib("ftdi_eeprom_get_strings", failAt # 2)>>
          IN  IF l.res.kind # "ok"
              THEN DevCall("eeprom_get_strings", l, cl)
              ELSE DevCall("eeprom_get_strings",
                     [wire |-> l.wire \o SubSeq(log, 1, IF failAt = 0 THEN 2
                                                        ELSE failAt),
                      res  |-> IF failAt = 0 THEN Ok(info)
                               ELSE FtdiErr(Len(l.wire) + failAt),
                      dev  |-> l.dev],
                     cl)

\* Methods that take &self: each makes one call of libftdi and returns
\* what check_ftdi_error makes of its result.
SharedMethods ==
    [set_baudrate |-> "ftdi_set_baudrate",
     set_bitmode |-> "ftdi_set_bitmode",
     set_latency_timer |-> "ftdi_set_latency_timer",
     purge_usb_buffers |-> "ftdi_usb_purge_buffers",
     read_pins |-> "ftdi_read_pins",
     read_data |-> "ftdi_read_data",
     write_data |-> "ftdi_write_data"]

\* dev.set_baudrate(..), dev.set_bitmode(..), .., dev.write_data(..)
DevIo ==
    /\ device.open
    /\ \E m \in DOMAIN SharedMethods, ok \in BOOLEAN :
          DevCall(m, [wire |-> <<Lib(SharedMethods[m], ok)>>,
                      res  |-> IF ok THEN Ok(0) ELSE FtdiErr(1),
                      dev  |-> device], <<>>)

\* dev.close(): ftdi_usb_close, check_ftdi_error(rc)?, drop(self); the
\* Device is consumed whether the call succeeds or not.
DevClose ==
    /\ device.open
    /\ \E ok \in BOOLEAN :
          DevCall("close", [wire |-> <<Lib("ftdi_usb_close", ok)>>,
                            res  |-> IF ok THEN Ok(0) ELSE FtdiErr(1),
                            dev  |-> [device EXCEPT !.open = FALSE]], <<>>)

----------------------------------------------------------------------------

Init ==
    /\ stack = <<>>
    /\ ret = NoResult
    /\ wire = <<>>
    /\ calls = <<>>
    /\ cmds = <<>>
    /\ entry = NoEntry
    /\ bitmode = 0
    /\ device = NoDevice

Next ==
    \/ CallSpiSel \/ CallSpiOut \/ CallLoopback \/ CallSpiIn
    \/ CallFlashPoll \/ CallFlashId \/ CallFlashWrite \/ CallFlashErase
    \/ CallMain \/ Reset
    \/ FlashPollTimeout \/ FlashPollOut \/ FlashPollIn \/ FlashPollSel
    \/ FlashIdOut \/ FlashIdIn \/ FlashIdSel
    \/ FlashWriteLoadCmd \/ FlashWriteLoadData \/ FlashWriteSel
    \/ FlashWriteCommit \/ FlashWritePoll \/ FlashWriteDone
    \/ DoEraseOut \/ DoEraseSel \/ DoErasePoll \/ DoEraseDone
    \/ FlashEraseCall \/ FlashEraseRet \/ FlashEraseDone
    \/ MainOpen \/ MainProgramMode \/ MainFlashId \/ MainFlashIdRet
    \/ MainErase \/ MainEraseRet \/ MainLoopRead \/ MainLoopWriteRet
    \/ MainFinalRead \/ MainFinalRet

Spec == Init /\ [][Next]_vars

\* A client of the library working with a Device.
DevNext ==
    \/ DevOpen \/ DevLoadEepromData \/ DevEepromGetStrings
    \/ DevIo \/ DevClose

DevSpec == Init /\ [][DevNext]_vars

----------------------------------------------------------------------------
(* Properties.                                                              *)

\* The engine operation in progress, or the last one.
CurCmd == cmds[Len(cmds)]

\* pin is at 1 in the control byte v
PinSet(v, pin) == (v \div pin) % 2 = 1

\* The chip-select lines a control byte asserts (they are active low).
Asserted(v) == {cs \in {CSN0, CSN1} : ~PinSet(v, cs)}

AllOk(log) == \A k \in 1..Len(log) : log[k].ok

\* The first operation of the transport log that failed (0: none).
FirstFailed(log) ==
    IF AllOk(log) THEN 0
    ELSE CHOOSE k \in 1..Len(log) :
            ~log[k].ok /\ \A j \in 1..(k - 1) : log[j].ok

IsIdleWrite(e) == e.op = "write" /\ e.data = <<IDLE>>

\* C1: FPGA and FLASH each assert exactly one chip-select, a different one
\* each, IDLE asserts neither and differs from both: whenever spi_sel(d) has
\* written its control byte, the byte asserts CSN1 alone for d = FPGA, CSN0
\* alone for d = FLASH, and no chip-select for d = IDLE.
C1_SelectPatterns ==
    (Finished /\ entry.op = "spi_sel") =>
        LET v == wire[1].data[1]
        IN  /\ entry.which = "FPGA" => Asserted(v) = {CSN1}
            /\ entry.which = "FLASH" => Asserted(v) = {CSN0}
            /\ entry.which = "IDLE" =>
                  Asserted(v) = {} /\ v # FPGA /\ v # FLASH

\* C2: no control byte handed to the transport, by any call, asserts both
\* chip-selects.
C2_MutualExclusion ==
    \A k \in 1..Len(wire) :
        wire[k].op = "write" =>
            \A j \in 1..Len(wire[k].data) :
                Asserted(wire[k].data[j]) # {CSN0, CSN1}

\* C2 witness: an spi_in with FLASH selected has clocked bits in and written
\* the idle pattern, so two different selections were driven in a row.
C2_Witness ==
    /\ Finished /\ entry.op = "spi_in" /\ entry.sel = FLASH
    /\ entry.n >= 1 /\ ret.kind = "ok"
    /\ Asserted(wire[Len(wire)].data[1]) # Asserted(wire[Len(wire) - 1].data[1])

\* The calls flash_write(buf, page_addr) makes up to the first status read.
FlashWriteCalls(buf, page_addr) ==
    << [fn |-> "spi_out", sel |-> FLASH, bytes |-> <<132, 0, 0, 0>>],
       [fn |-> "spi_out", sel |-> FLASH, bytes |-> buf],
       [fn |-> "spi_sel", sel |-> IDLE, bytes |-> <<>>],
       [fn |-> "spi_out", sel |-> FLASH,
        bytes |-> <<136, (page_addr % 1024) \div 128,
                    (2 * (page_addr % 128)) % 256, 0>>],
       [fn |-> "spi_sel", sel |-> IDLE, bytes |-> <<>>],
       [fn |-> "spi_out", sel |-> FLASH, bytes |-> <<215>>] >>

\* C3: as long as no transport operation of a flash_write has failed, its
\* calls are, in this order: spi_out of <<132, 0, 0, 0>> with FLASH, spi_out
\* of the page buffer with FLASH (on the wire: words that all end with FLASH
\* selected, no idle write among them), spi_sel(IDLE), spi_out of the commit
\* command with FLASH, spi_sel(IDLE), and only then the status read of
\* flash_poll (spi_out of 215, then spi_in); so exactly two spi_sel(IDLE)
\* come before polling starts.
C3_WritePageOrder ==
    (cmds # <<>> /\ CurCmd.op = "flash_write" /\ AllOk(wire)) =>
        LET exp == FlashWriteCalls(CurCmd.arg, CurCmd.page)
            nload == 4 + Len(CurCmd.arg)
        IN  /\ \A i \in 1..Min(Len(calls), 6) :
                  /\ calls[i].fn = exp[i].fn
                  /\ calls[i].sel = exp[i].sel
                  /\ calls[i].bytes = exp[i].bytes
            /\ Len(calls) >= 7 =>
                  calls[7].fn = "spi_in" /\ calls[7].sel = FLASH
            /\ \A k \in 1..Min(Len(wire), nload) :
                  Len(wire[k].data) = 17 /\ wire[k].data[17] = FLASH
            /\ Len(wire) > nload => IsIdleWrite(wire[nload + 1])
            /\ Len(wire) > nload + 5 => IsIdleWrite(wire[nload + 6])
            /\ Cardinality({i \in 1..Min(Len(calls), 6) :
                              calls[i].fn = "spi_sel"})
                  = IF Len(calls) >= 5 THEN 2
                    ELSE IF Len(calls) >= 3 THEN 1 ELSE 0

\* C3 witness: a flash_write without a transport error has made its first
\* status read.
C3_Witness ==
    /\ cmds # <<>> /\ CurCmd.op = "flash_write" /\ AllOk(wire)
    /\ Len(calls) >= 7
    /\ calls[7].fn = "spi_in"

\* C4: spi_in writes the idle pattern before it returns on every path: the
\* last transport operation of every spi_in call, failed or not, is the
\* write of the idle pattern.
C4_SpiInAlwaysIdles ==
    (Finished /\ entry.op = "spi_in") =>
        /\ wire # <<>>
        /\ IsIdleWrite(wire[Len(wire)])

\* The flash_write operations of the run so far, in order.
Writes == SelectSeq(cmds, LAMBDA c : c.op = "flash_write")

\* The i-th page of the file (i from 0).
FilePage(i) == [j \in 1..PageLen |-> FileByte(i * PageLen + j)]

\* main has returned without a panic or I/O error and the file was read to
\* its end: k full pages and r bytes more.
MainEnded(k, r) ==
    /\ Finished /\ entry.op = "main"
    /\ ret.kind \in {"done", "too_large"}
    /\ stack[1].eof
    /\ stack[1].fpos = k * PageLen + r

\* C5: a file of exactly k pages (k >= 1), without a transport or timeout
\* error: flash_write is called exactly for the pages 0..k-1, in order, with
\* the k full buffers, and for no further page.
C5_ExactMultiple ==
    \A k \in 1..NumPages :
        MainEnded(k, 0) =>
            /\ Len(Writes) = k
            /\ \A i \in 1..k :
                  Writes[i].page = i - 1 /\ Writes[i].arg = FilePage(i - 1)

C7_PollTimeout ==
    ( /\ Finished /\ entry.op = "flash_poll"
      /\ AllOk(wire)
      /\ \A i \in 1..Len(calls) :
            calls[i].fn = "spi_in" => calls[i].bytes[1] < 128 ) =>
        /\ ret = Timeout
        /\ Len(calls) = 3 * entry.n
        /\ Len(wire) = 27 * entry.n
        /\ \A i \in 1..Len(calls) :
              /\ i % 3 = 1 => /\ calls[i].fn = "spi_out"
                              /\ calls[i].bytes = <<215>>
                              /\ calls[i].sel = FLASH
              /\ i % 3 = 2 => /\ calls[i].fn = "spi_in"
                              /\ Len(calls[i].bytes) = 1
                              /\ calls[i].sel = FLASH
              /\ i % 3 = 0 => calls[i].fn = "spi_sel" /\ calls[i].sel = IDLE

\* C7 witness: a flash_poll of three iterations or more has timed out, with
\* a status byte that was not zero.
C7_Witness ==
    /\ Finished /\ entry.op = "flash_poll" /\ entry.n >= 3
    /\ ret = Timeout /\ AllOk(wire)
    /\ \E i \in 1..Len(calls) :
          calls[i].fn = "spi_in" /\ calls[i].bytes[1] # 0

\* C8: whenever a flash command (flash_id, flash_write, do_erase_cmd,
\* flash_poll) has ended with an ftdi error, the idle pattern was written, or
\* its write attempted, after the transport operation that failed (the
\* failed operation itself is let count when it is that write).
C8_IdleOnTransportError ==
    (cmds # <<>> /\ CurCmd.res = "ftdi") =>
        LET f == FirstFailed(wire)
        IN  /\ f > 0
            /\ \E j \in f..Len(wire) : IsIdleWrite(wire[j])

\* The first spi_out or spi_in call that failed (0: none).
FailedPhase ==
    LET bad == {i \in 1..Len(calls) :
                   calls[i].fn \in {"spi_out", "spi_in"} /\ ~calls[i].ok}
    IN  IF bad = {} THEN 0
        ELSE CHOOSE i \in bad : \A j \in bad : i <= j

\* C9: when the spi_out or the spi_in of flash_id has failed, spi_sel(IDLE)
\* is called next and nothing after it, and flash_id returns the error of
\* the failed phase, also when that spi_sel has failed.
C9_ReadIdOriginalError ==
    ( /\ \/ Finished /\ entry.op = "flash_id"
         \/ Running("main", "id_ret")
      /\ FailedPhase > 0 ) =>
        /\ Len(calls) = FailedPhase + 1
        /\ calls[FailedPhase + 1].fn = "spi_sel"
        /\ calls[FailedPhase + 1].sel = IDLE
        /\ ret = FtdiErr(FirstFailed(wire))

\* C10: spi_out writes, for every byte b and selection sel, a word of 17
\* entries: entry 2i (i in 0..7) is sel, with MOSI iff bit 7-i of b is 1,
\* clock low; entry 2i+1 the same with SCLK set; entry 16 is sel alone.
C10_Waveform ==
    (Finished /\ entry.op = "spi_out") =>
        \A k \in 1..Len(wire) :
            /\ wire[k].op = "write"
            /\ Len(wire[k].data) = 17
            /\ \A pos \in 0..16 :
                  wire[k].data[pos + 1] =
                      entry.sel
                      + (IF pos < 16 /\
                            (entry.bytes[k] \div (2 ^ (7 - (pos \div 2)))) % 2 = 1
                         THEN MOSI ELSE 0)
                      + (IF pos % 2 = 1 THEN SCLK ELSE 0)

\* C10 witness: spi_out of the byte 128 with FLASH selected has returned:
\* MOSI is set in the first pair of entries only.
C10_Witness ==
    /\ Finished /\ entry.op = "spi_out" /\ ret.kind = "ok"
    /\ entry.bytes = <<128>> /\ entry.sel = FLASH
    /\ wire[1].data[1] = FLASH + MOSI
    /\ wire[1].data[2] = FLASH + MOSI + SCLK
    /\ wire[1].data[3] = FLASH

\* The byte a 17-entry word carries: bit 7-i is the MOSI level of entry 2i.
WordByte(word) ==
    LET bit(i) == (word[2 * i + 1] \div MOSI) % 2
    IN  128 * bit(0) + 64 * bit(1) + 32 * bit(2) + 16 * bit(3)
        + 8 * bit(4) + 4 * bit(5) + 2 * bit(6) + bit(7)

\* C11: spi_out issues exactly one write, of a 17-entry word, per input
\* byte, in input order.  When every write succeeds it returns the number of
\* input bytes.  When the write for byte k fails it returns that error at
\* once: the words of the bytes before k are written, and nothing (no word,
\* no deselect) is written after the failed write.
C11_OneWritePerByte ==
    (Finished /\ entry.op = "spi_out") =>
        /\ Len(wire) <= Len(entry.bytes)
        /\ \A k \in 1..Len(wire) :
              /\ wire[k].op = "write"
              /\ Len(wire[k].data) = 17
              /\ WordByte(wire[k].data) = entry.bytes[k]
              /\ wire[k].ok <=> (k < Len(wire) \/ ret.kind = "ok")
        /\ ret.kind = "ok" =>
              Len(wire) = Len(entry.bytes) /\ ret.val = Len(entry.bytes)
        /\ ret.kind # "ok" => ret = FtdiErr(Len(wire))

\* C11 witness: spi_out of two different bytes whose second write has failed
\* after the first word was written.
C11_Witness ==
    /\ Finished /\ entry.op = "spi_out" /\ Len(entry.bytes) = 2
    /\ ret.kind = "ftdi"
    /\ entry.bytes[1] # entry.bytes[2]
    /\ Len(wire) = 2 /\ wire[1].ok /\ ~wire[2].ok

\* C12: spi_in samples before it clocks.  For every bit the transport
\* operations are read_pins, a write of the one byte clock-high with the
\* selection, a write of the one byte clock-low with the selection, in this
\* order: the first operation of the call is a sample, and every later
\* sample follows a clock-low write.  A successful call for n bytes makes
\* 8n samples and 16n clock writes, then the one write of the idle pattern.
C12_SampleBeforeClock ==
    (Finished /\ entry.op = "spi_in") =>
        /\ Len(wire) <= 24 * entry.n + 1
        /\ \A k \in 1..Len(wire) :
              k <= 24 * entry.n =>
                 /\ k % 3 = 1 => wire[k].op = "read_pins"
                 /\ k % 3 = 2 => /\ wire[k].op = "write"
                                 /\ wire[k].data = <<entry.sel + SCLK>>
                 /\ k % 3 = 0 => /\ wire[k].op = "write"
                                 /\ wire[k].data = <<entry.sel>>
        /\ ret.kind = "ok" =>
              /\ Len(wire) = 24 * entry.n + 1
              /\ IsIdleWrite(wire[Len(wire)])
              /\ Cardinality({k \in 1..Len(wire) : wire[k].op = "read_pins"})
                    = 8 * entry.n
              /\ Cardinality({k \in 1..(Len(wire) - 1) : wire[k].op = "write"})
                    = 16 * entry.n

\* C12 witness: a successful spi_in of two bytes or more with FLASH selected.
C12_Witness ==
    /\ Finished /\ entry.op = "spi_in" /\ ret.kind = "ok"
    /\ entry.n >= 2 /\ entry.sel = FLASH
    /\ wire[1].op = "read_pins" /\ wire[4].op = "read_pins"

\* The s-th sample of a direct spi_in call (s from 0): what read_pins gave.
SampleAt(s) == wire[3 * s + 1].data[1]

\* C13: on success, bit 7-j of output byte k is 1 exactly when the MISO bit
\* was set in sample 8k+j (j in 0..7), whatever the other pin bits of the
\* samples were, and the count returned is the length of the buffer.
C13_Decode ==
    (Finished /\ entry.op = "spi_in" /\ ret.kind = "ok") =>
        /\ ret.val = entry.n
        /\ Len(calls[1].bytes) = entry.n
        /\ \A k \in 0..(entry.n - 1), j \in 0..7 :
              (calls[1].bytes[k + 1] \div (2 ^ (7 - j))) % 2
                  = (SampleAt(8 * k + j) \div MISO) % 2

\* C13 witness: a successful spi_in of two bytes that has decoded 37 and
\* 128 from samples in which the other pins were at 1.
C13_Witness ==
    /\ Finished /\ entry.op = "spi_in" /\ ret.kind = "ok"
    /\ calls[1].bytes = <<37, 128>>
    /\ SampleAt(0) = 255 - MISO
    /\ SampleAt(8) = 255

\* C14: loopback round trip.  For every byte b, when the MISO level at the
\* j-th sample of spi_in equals the MOSI level of bit-pair j of the word
\* spi_out has written for b, spi_in reconstructs exactly b.
C14_Loopback ==
    ( /\ Finished /\ entry.op = "loopback" /\ ret.kind = "ok"
      /\ \A j \in 0..7 :
            (wire[3 * j + 2].data[1] \div MISO) % 2
                = (wire[1].data[2 * j + 1] \div MOSI) % 2 ) =>
        /\ calls[2].fn = "spi_in"
        /\ calls[2].bytes = entry.bytes

\* C14 witness: the byte 37, which is not its own mirror image, has gone
\* out and come back, the other pins at 1 in the samples.
C14_Witness ==
    /\ Finished /\ entry.op = "loopback" /\ ret.kind = "ok"
    /\ entry.bytes = <<37>>
    /\ calls[2].bytes = <<37>>
    /\ wire[2].op = "read_pins" /\ wire[2].data[1] = 255 - MISO
    /\ \A j \in 0..7 :
          (wire[3 * j + 2].data[1] \div MISO) % 2
              = (wire[1].data[2 * j + 1] \div MOSI) % 2

\* flash_id has just returned, to its caller or to main.
FlashIdReturned ==
    \/ Finished /\ entry.op = "flash_id"
    \/ Running("main", "id_ret")

\* The k-th byte (k from 1) the flash shifted out during flash_id's spi_in,
\* read off the samples: they follow the one word of the spi_out.
RxByte(k) ==
    LET bit(j) == (wire[2 + 3 * (8 * (k - 1) + j)].data[1] \div MISO) % 2
    IN  128 * bit(0) + 64 * bit(1) + 32 * bit(2) + 16 * bit(3)
        + 8 * bit(4) + 4 * bit(5) + 2 * bit(6) + bit(7)

\* C15: flash_id returns the four bytes received, b0 first, read as a
\* little-endian number b0 + 256*b1 + 65536*b2 + 16777216*b3, and gets them
\* by spi_out of <<0x9F>> with FLASH, spi_in of 4 bytes with FLASH, then
\* spi_sel(IDLE).
C15_ReadIdLittleEndian ==
    (FlashIdReturned /\ ret.kind = "ok") =>
        /\ Len(calls) = 3
        /\ calls[1].fn = "spi_out" /\ calls[1].sel = FLASH
        /\ calls[1].bytes = <<159>>
        /\ calls[2].fn = "spi_in" /\ calls[2].sel = FLASH
        /\ calls[2].bytes = <<RxByte(1), RxByte(2), RxByte(3), RxByte(4)>>
        /\ calls[3].fn = "spi_sel" /\ calls[3].sel = IDLE
        /\ ret.val = RxByte(1) + 256 * RxByte(2) + 65536 * RxByte(3)
                        + 16777216 * RxByte(4)

\* C15 witness: the flash has answered 0x1F, 0x25, 0, 0 and flash_id has
\* returned 0x0000251F.
C15_Witness ==
    /\ FlashIdReturned /\ ret.kind = "ok"
    /\ <<RxByte(1), RxByte(2), RxByte(3), RxByte(4)>> = <<31, 37, 0, 0>>
    /\ ret.val = 9503

\* C16: the commit command flash_write sends for the page p is
\* <<0x88, (p >> 7) & 0x07, (p << 1) & 0xFE, 0>>, each field an 8-bit value:
\* (p >> 7) & 7 is (p div 128) mod 8, and (p << 1) & 0xFE is twice p mod 128.
\* The words written for it carry these four bytes.
C16_CommitCommand ==
    (cmds # <<>> /\ CurCmd.op = "flash_write" /\ Len(calls) >= 4) =>
        LET p == CurCmd.page
            first == 4 + Len(CurCmd.arg) + 1
            cmd == calls[4].bytes
        IN  /\ calls[4].fn = "spi_out"
            /\ cmd = <<136, (p \div 128) % 8, 2 * (p % 128), 0>>
            /\ \A i \in 1..4 :
                  /\ cmd[i] \in 0..255
                  /\ first + i <= Len(wire) =>
                        WordByte(wire[first + i].data) = cmd[i]

\* C16 witness: the commit command of the page 8191, whose index has bits
\* above the ten the command takes, has been sent.
C16_Witness ==
    /\ cmds # <<>> /\ CurCmd.op = "flash_write" /\ Len(calls) >= 4
    /\ calls[4].ok
    /\ CurCmd.page = 8191
    /\ calls[4].bytes = <<136, 7, 254, 0>>

\* The flash command in progress, or the last one, is one that polls.
Polling ==
    cmds # <<>> /\ CurCmd.op \in {"flash_poll", "flash_write", "do_erase_cmd"}

\* The i-th call was a status read that found bit 7 set.
ReadyAt(i) ==
    calls[i].fn = "spi_in" /\ calls[i].ok /\ calls[i].bytes[1] >= 128

\* C17: flash_poll returns success at the first iteration whose status byte
\* has bit 7 set: after that iteration's spi_sel(IDLE) no call is made and,
\* that spi_sel having succeeded, flash_poll has returned Ok; and a command
\* ends with success only if the last status byte read had bit 7 set.
C17_PollSuccessImmediate ==
    Polling =>
        /\ \A i \in 1..Len(calls) :
              ReadyAt(i) =>
                 /\ Len(calls) <= i + 1
                 /\ Len(calls) = i + 1 =>
                       /\ calls[i + 1].fn = "spi_sel"
                       /\ calls[i + 1].sel = IDLE
                       /\ calls[i + 1].ok =>
                             /\ ~(stack # <<>> /\ Top.fn = "flash_poll")
                             /\ CurCmd.res \in {"run", "ok"}
                             /\ CurCmd.res = "run" => ret.kind = "ok"
        /\ CurCmd.res = "ok" =>
              /\ Len(calls) >= 3
              /\ ReadyAt(Len(calls) - 1)
              /\ calls[Len(calls)].fn = "spi_sel"

\* C17 witness: a flash_poll with a budget of three iterations or more has
\* returned Ok after its second status read.
C17_Witness ==
    /\ Finished /\ entry.op = "flash_poll" /\ entry.n >= 3
    /\ ret.kind = "ok"
    /\ Len(calls) = 6 /\ ReadyAt(5) /\ ~ReadyAt(2)

\* The iteration budget of the poll of the flash command in progress.
Budget == IF CurCmd.op = "flash_poll" THEN entry.n ELSE PollBudget

\* The status reads of the flash command in progress.
StatusReads == {i \in 1..Len(calls) : calls[i].fn = "spi_in"}

\* C18: Timeout and the ftdi error are distinct outcomes.  flash_poll, and
\* with it flash_write and do_erase_cmd, returns Timeout only when every
\* transport operation has succeeded and the budget of iterations is used up
\* without a status byte with bit 7 set; once a transport operation has
\* failed the result is the ftdi error, never Timeout and never success.
C18_TimeoutVsTransport ==
    cmds # <<>> =>
        /\ (CurCmd.res = "timeout" \/ ret.kind = "timeout") =>
              /\ Polling
              /\ AllOk(wire)
              /\ Cardinality(StatusReads) = Budget
              /\ \A i \in StatusReads : ~ReadyAt(i)
        /\ ~AllOk(wire) =>
              /\ CurCmd.res \in {"run", "ftdi"}
              /\ CurCmd.res = "run" => ret.kind = "ftdi"
              /\ ret.kind \notin {"ok", "timeout", "done"}

\* C18 witness: a flash_write has ended with Timeout.
C18_Witness ==
    /\ cmds # <<>> /\ CurCmd.op = "flash_write" /\ CurCmd.res = "timeout"
    /\ Cardinality(StatusReads) = PollBudget

\* The erase commands of the run so far, in order.
EraseCmds == SelectSeq(cmds, LAMBDA c : c.op = "do_erase_cmd")

\* The 18 erase commands in their order (n from 1).
EraseOrder(n) ==
    IF n = 1 THEN <<124, 0, 0, 0>>
    ELSE IF n = 2 THEN <<124, 0, 16, 0>>
    ELSE <<124, 2 * (n - 3), 0, 0>>

\* C19: flash_erase issues 18 erase commands: <<0x7C,0,0,0>>,
\* <<0x7C,0,0x10,0>>, then <<0x7C, i<<1, 0, 0>> for i = 0..15.  Each is run
\* as spi_out(cmd, FLASH), spi_sel(IDLE), flash_poll; a command is sent only
\* after every command before it has ended with success, so none is sent
\* after the first ftdi error or Timeout; flash_erase returns Ok only after
\* all 18, and otherwise the result of the command that failed.
C19_EraseOrder ==
    LET n == Len(EraseCmds)
    IN  /\ n <= 18
        /\ \A i \in 1..n :
              /\ EraseCmds[i].arg = EraseOrder(i)
              /\ i < n => EraseCmds[i].res = "ok"
        /\ (cmds # <<>> /\ CurCmd.op = "do_erase_cmd") =>
              /\ Len(calls) >= 1 =>
                    /\ calls[1].fn = "spi_out" /\ calls[1].sel = FLASH
                    /\ calls[1].bytes = CurCmd.arg
              /\ Len(calls) >= 2 =>
                    calls[2].fn = "spi_sel" /\ calls[2].sel = IDLE
              /\ \A i \in 3..Len(calls) :
                    /\ i % 3 = 0 => /\ calls[i].fn = "spi_out"
                                    /\ calls[i].bytes = <<215>>
                    /\ i % 3 = 1 => calls[i].fn = "spi_in"
                    /\ i % 3 = 2 => calls[i].fn = "spi_sel"
              /\ CurCmd.res = "ok" => Len(calls) >= 5
        /\ (Finished /\ entry.op = "flash_erase") =>
              /\ n >= 1
              /\ ret.kind = EraseCmds[n].res
              /\ ret.kind = "ok" <=> (n = 18 /\ EraseCmds[n].res = "ok")

\* C19 witness: flash_erase has returned Ok after its 18 commands.
C19_Witness ==
    /\ Finished /\ entry.op = "flash_erase" /\ ret.kind = "ok"
    /\ Len(EraseCmds) = 18
    /\ EraseCmds[18].arg = <<124, 30, 0, 0>>

\* C20: in a run of main the flash identifier is read first; the erase of
\* the whole device (its 18 commands) has ended with success before the
\* first flash_write is issued; and every error is fatal: after a flash
\* command that ended with an ftdi error or a Timeout no flash command is
\* issued, so every command but the last of the run has ended with success.
C20_WorkflowOrder ==
    entry.op = "main" =>
        /\ \A j \in 1..Len(cmds) :
              /\ cmds[j].op = "flash_id" <=> j = 1
              /\ cmds[j].op = "do_erase_cmd" <=> j \in 2..19
              /\ cmds[j].op = "flash_write" <=> j >= 20
              /\ j < Len(cmds) => cmds[j].res = "ok"
        /\ (Finished /\ cmds # <<>> /\ CurCmd.res # "ok") =>
              ret.kind = "panic"

\* C20 witness: a run of main has ended at a flash_write that failed, after
\* the identifier was read, the device erased and a page written.
C20_Witness ==
    /\ entry.op = "main" /\ Finished /\ ret.kind = "panic"
    /\ Len(cmds) >= 21
    /\ CurCmd.op = "flash_write" /\ CurCmd.res \in {"ftdi", "timeout"}

\* The flash operation main is in: the function main has called.
MainIn(fn) ==
    entry.op = "main" /\ Len(stack) >= 2 /\ stack[2].fn = fn

CSBits(v) == v % 4

\* Every byte of the write e carries the selection sel.
Carries(e, sel) == \A j \in 1..Len(e.data) : CSBits(e.data[j]) = sel

\* The transport operations of the command in progress up to the first that
\* failed (all of them when none has).
Attempted == IF AllOk(wire) THEN Len(wire) ELSE FirstFailed(wire)

\* Number of transport operations a polling command makes before its poll.
PollOffset ==
    IF CurCmd.op = "flash_write" THEN Len(CurCmd.arg) + 10
    ELSE IF CurCmd.op = "do_erase_cmd" THEN 5
    ELSE 0

\* C22: chip-select stays asserted across a write phase and the read phase
\* after it.  In flash_id and in every iteration of flash_poll, every control
\* byte from the first entry of the opcode's word to the write of the idle
\* pattern that ends the spi_in carries the FLASH selection.  spi_out never
\* deselects: it writes only 17-entry words whose entries all carry its
\* selection, the last one the selection alone (clock low).
C22_SelectHeld ==
    /\ (cmds # <<>> /\ CurCmd.op = "flash_id") =>
          /\ \A k \in 1..Min(Attempted, 97) :
                wire[k].op = "write" =>
                   /\ Carries(wire[k], FLASH)
                   /\ Len(wire[k].data) = (IF k = 1 THEN 17 ELSE 1)
          /\ Attempted >= 98 => IsIdleWrite(wire[98])
    /\ Polling =>
          \A k \in (PollOffset + 1)..Attempted :
              LET pos == (k - PollOffset - 1) % 27
              IN  /\ pos = 0 => /\ wire[k].op = "write"
                                /\ Len(wire[k].data) = 17
                                /\ Carries(wire[k], FLASH)
                                /\ wire[k].data[17] = FLASH
                  /\ (pos \in 1..24 /\ wire[k].op = "write") =>
                        Len(wire[k].data) = 1 /\ Carries(wire[k], FLASH)
                  /\ pos = 25 => IsIdleWrite(wire[k])
    /\ (Finished /\ entry.op = "spi_out") =>
          \A k \in 1..Len(wire) :
              /\ Len(wire[k].data) = 17
              /\ Carries(wire[k], CSBits(entry.sel))
              /\ wire[k].data[17] = entry.sel

\* C22 witness: a flash_poll has gone through two iterations of status
\* write, status read and deselect, and returned Ok.
C22_Witness ==
    /\ Finished /\ entry.op = "flash_poll" /\ ret.kind = "ok"
    /\ Len(wire) = 54
    /\ Carries(wire[28], FLASH) /\ Carries(wire[52], FLASH)
    /\ IsIdleWrite(wire[53])

\* A write of the one control byte that deasserts both chip-selects, with
\* the clock low.
Deselects(e) ==
    /\ e.op = "write" /\ Len(e.data) = 1
    /\ Asserted(e.data[1]) = {}
    /\ ~PinSet(e.data[1], SCLK)

\* C23: every command sequence is ended by a deselect before another
\* begins.  Whenever flash_id, flash_write, do_erase_cmd or flash_poll has
\* returned Ok, the last control byte written is the idle pattern (neither
\* chip-select asserted) with the clock low; hence such a write lies between
\* the opcode words of any two successive commands, as it does between the
\* buffer load and the commit command of a flash_write.
C23_IdleTerminates ==
    cmds # <<>> =>
        /\ CurCmd.res = "ok" =>
              wire # <<>> /\ Deselects(wire[Len(wire)])
        /\ (CurCmd.op = "flash_write" /\ AllOk(wire)
                /\ Len(wire) >= Len(CurCmd.arg) + 6) =>
              Deselects(wire[Len(CurCmd.arg) + 5])

\* Number of pages the workflow loop can visit: for page_num in 0..8192u16.
DevicePages == 8192

\* C24: page addressing does not alias over the pages 0..8191: the commit
\* command flash_write sends for a page p differs from the commit command of
\* every other page q of that range.
C24_NoAlias ==
    ( /\ cmds # <<>> /\ CurCmd.op = "flash_write"
      /\ CurCmd.page < DevicePages
      /\ Len(calls) >= 4 ) =>
        \A q \in PageAddrs \cup 0..NumPages :
            (q < DevicePages /\ q # CurCmd.page) =>
                calls[4].bytes # BufToFlashCmd(q)

\* C25: for every length of the file, the page indices main passes to
\* flash_write are 0, 1, 2, .. without gap or repeat, each at most the index
\* of the last page there is, and whenever main is between two of its
\* flash_write calls, or has ended normally, last_page_written is the index
\* of the flash_write issued last.
C25_PageSequence ==
    entry.op = "main" =>
        /\ \A i \in 1..Len(Writes) :
              /\ Writes[i].page = i - 1
              /\ Writes[i].page <= NumPages - 1
        /\ ( /\ Writes # <<>> /\ Len(stack) = 1
             /\ \/ stack[1].pc \in {"loop", "final_read"}
                \/ stack[1].pc = "exit" /\ ret.kind = "done" ) =>
              stack[1].last_page_written = Writes[Len(Writes)].page

\* The state of the last method of Device that ran.
WasLoaded == entry.which = "loaded"
LoadCompleted ==
    /\ Len(wire) >= 2
    /\ wire[1] = Lib("ftdi_read_eeprom", TRUE)
    /\ wire[2] = Lib("ftdi_eeprom_decode", TRUE)
GotStrings == \E i \in DOMAIN wire : wire[i].op = "ftdi_eeprom_get_strings"

\* C26: eeprom_read is false in a Device just constructed; a method of the
\* Device never clears it; it goes from false to true only in a call whose
\* ftdi_read_eeprom and ftdi_eeprom_decode both succeeded, and a
\* load_eeprom_data that fails on a Device not loaded leaves it false;
\* eeprom_get_strings calls load_eeprom_data exactly when eeprom_read was
\* false, and when that load fails it returns the error of the call that
\* failed, asks for no strings and leaves eeprom_read false.
C26_EepromState ==
    /\ entry.op \in DOMAIN Constructors /\ ret.kind = "ok"
          => device.open /\ ~device.eeprom_read
    /\ entry.op \in DOMAIN SharedMethods \cup
                    {"load_eeprom_data", "eeprom_get_strings", "close"}
          => /\ WasLoaded => device.eeprom_read
             /\ ~WasLoaded /\ device.eeprom_read
                   => /\ entry.op \in {"load_eeprom_data", "eeprom_get_strings"}
                      /\ LoadCompleted
    /\ entry.op = "load_eeprom_data"
          => /\ ret.kind = "ok" => LoadCompleted /\ device.eeprom_read
             /\ ret.kind # "ok" /\ ~WasLoaded => ~device.eeprom_read
    /\ entry.op = "eeprom_get_strings"
          => /\ (calls # <<>>) <=> ~WasLoaded
             /\ \A i \in DOMAIN calls :
                   /\ calls[i].fn = "load_eeprom_data"
                   /\ ~calls[i].ok
                         => /\ ret = FtdiErr(Len(wire))
                            /\ Len(wire) <= 2
                            /\ ~wire[Len(wire)].ok
                            /\ ~GotStrings
                            /\ ~device.eeprom_read

\* eeprom_get_strings ran on a Device not loaded, the decode of its load
\* failed: the error of the decode came back and eeprom_read is still false.
C26_Witness ==
    /\ entry.op = "eeprom_get_strings"
    /\ ~WasLoaded
    /\ wire = <<Lib("ftdi_read_eeprom", TRUE), Lib("ftdi_eeprom_decode", FALSE)>>
    /\ ret = FtdiErr(2)
    /\ ~device.eeprom_read

====
